---- MODULE Spec2Model ----
(***************************************************************************)
(* Model of sm-pipelines-hugging-face-lambda-step.ipynb: the pipeline the  *)
(* notebook declares (process, train, eval, condition, register, Lambda    *)
(* deployment) and the Lambda handler lambda_deployer.lambda_handler that  *)
(* the deployment step invokes.                                            *)
(*                                                                         *)
(* The handler is interpreted statement by statement: reading the event,   *)
(* then each platform API call (its arguments are evaluated first, a name  *)
(* that is not bound raises NameError, a failing call raises the client    *)
(* error), then the return.  Losses are counted in hundredths.             *)
(***************************************************************************)
EXTENDS Integers, Sequences, FiniteSets, TLC

\* ---------------------------------------------------------------- bounds
MaxExecutions == 2
LossSpread == 2

\* ------------------------------------------------- notebook environment
Times == {"01-01-00-00-00", "12-31-23-59-59"}
Buckets == {"sagemaker-us-west-2-1", "sagemaker-us-east-1-2"}
Roles == {"arn:aws:iam::1:role/exec"}

s3_prefix == "hugging-face-pipeline-demo"
model_package_group_name == "HuggingFaceModelPackageGroup"

VARIABLES
    current_time,   \* time.strftime(...) taken when the Lambda step is defined
    bucket,         \* sagemaker_session.default_bucket()
    role,           \* sagemaker.get_execution_role()
    execution,      \* number of pipeline.start() calls so far
    status,         \* status of each step in the current execution
    evalLoss,       \* eval_loss in evaluation.json (hundredths), -1 if not written
    condOutcome,    \* outcome of the condition step: "None", "True", "False"
    modelPackages,  \* model packages registered: [arn, exec]
    created,        \* platform resources created: [kind, name, exec]
    invoker,        \* who invoked the handler: "none", "pipeline", "direct"
    owner,          \* the execution that invoked the handler, 0 if none did
    event,          \* the event of the current handler invocation
    pc,             \* position of the handler
    locals,         \* names bound in the handler's frame
    calls,          \* API calls issued by the current invocation: [api, args, ok]
    error,          \* exception raised by the current invocation, "none" if none
    response        \* value returned by the current invocation

vars == <<current_time, bucket, role, execution, status, evalLoss, condOutcome,
          modelPackages, created, invoker, owner, event, pc, locals, calls,
          error, response>>

env == <<current_time, bucket, role>>
pipe == <<execution, status, evalLoss, condOutcome, modelPackages>>
frame == <<invoker, owner, event, pc, locals, calls, error, response>>

\* ------------------------------------------------------------- pipeline
Steps == {"process", "train", "eval", "cond", "register", "deploy"}
JobSteps == {"process", "train", "eval"}

PipelineSteps == {"process", "train", "eval", "cond"}
IfSteps == {"register", "deploy"}
ElseStepsRegister == {"register"}
ElseSteps == {}

\* data dependencies between the steps (properties of one step read by another)
DependsOn ==
    [process  |-> {},
     train    |-> {"process"},
     eval     |-> {"train"},
     cond     |-> {"eval"},
     register |-> {"train"},
     deploy   |-> {"register"}]

Threshold == 30
LossValues == (Threshold - LossSpread)..(Threshold + LossSpread)

cond_lte(loss) == loss <= Threshold

Eligible(s) ==
    \/ s \in PipelineSteps
    \/ /\ status["cond"] = "Succeeded"
       /\ \/ condOutcome = "True" /\ s \in IfSteps
          \/ condOutcome = "False" /\ s \in ElseSteps

CanStart(s) ==
    /\ execution > 0
    /\ status[s] = "NotStarted"
    /\ Eligible(s)
    /\ \A d \in DependsOn[s] : status[d] = "Succeeded"

ExecNames == <<"1", "2", "3", "4", "5", "6">>
ModelPackageArn(n) ==
    "arn:aws:sagemaker:model-package/" \o model_package_group_name \o "/" \o ExecNames[n]

\* ------------------------------------------------------ Lambda step
model_name == "demo-hf-model" \o current_time
endpoint_config_name == "demo-hf-endpoint-config" \o current_time
endpoint_name == "demo-hf-endpoint-" \o current_time

LambdaOutputNames == {"statusCode", "body", "other_key"}

LambdaInputs ==
    [model_name           |-> model_name,
     endpoint_config_name |-> endpoint_config_name,
     endpoint_name        |-> endpoint_name,
     model_package_arn    |-> ModelPackageArn(execution),
     role                 |-> role,
     bucket               |-> bucket,
     s3_prefix            |-> s3_prefix]

\* ---------------------------------------------------------- handler
EventKeys == {"model_name", "model_package_arn", "endpoint_config_name",
              "endpoint_name", "role", "bucket", "s3_prefix"}

None == [NoneType |-> TRUE]
NoLocals == [n \in {} |-> ""]
Terminal == {"returned", "raised"}

JsonDumps(s) == "\"" \o s \o "\""

ReturnValue ==
    [statusCode |-> 200,
     body       |-> JsonDumps("Created Endpoint!"),
     other_key  |-> "example_value"]

\* the names bound by lines 393-401
BindLocals(e) ==
    [model_name           |-> e["model_name"],
     model_package_arn    |-> e["model_package_arn"],
     endpoint_config_name |-> e["endpoint_config_name"],
     endpoint_name        |-> e["endpoint_name"],
     role                 |-> e["role"],
     bucket               |-> e["bucket"],
     s3_prefix            |-> e["s3_prefix"],
     container            |-> [ModelPackageName |-> e["model_package_arn"]]]

\* the three API statements: the names each one reads, the resource it
\* creates and the statement that follows it
Program ==
    [create_model |->
        [uses |-> {"model_name", "role", "container"},
         kind |-> "model", named |-> "model_name",
         next |-> "create_endpoint_config"],
     create_endpoint_config |->
        [uses |-> {"endpoint_config_name", "model_name", "s3_bucket", "s3_prefix"},
         kind |-> "endpoint_config", named |-> "endpoint_config_name",
         next |-> "create_endpoint"],
     create_endpoint |->
        [uses |-> {"endpoint_name", "endpoint_config_name"},
         kind |-> "endpoint", named |-> "endpoint_name",
         next |-> "return"]]

ApiNames == DOMAIN Program

Args(api, l) ==
    CASE api = "create_model" ->
            [ModelName        |-> l["model_name"],
             ExecutionRoleArn |-> l["role"],
             Containers       |-> <<l["container"]>>]
      [] api = "create_endpoint_config" ->
            [EndpointConfigName |-> l["endpoint_config_name"],
             ProductionVariants |->
                <<[VariantName          |-> "variant1",
                   ModelName            |-> l["model_name"],
                   InstanceType         |-> "ml.m5.xlarge",
                   InitialInstanceCount |-> 1]>>,
             AsyncInferenceConfig |->
                [OutputConfig |->
                    [S3OutputPath |->
                        "s3://" \o l["s3_bucket"] \o "/" \o l["s3_prefix"] \o "/output"],
                 ClientConfig |-> [MaxConcurrentInvocationsPerInstance |-> 4]]]
      [] api = "create_endpoint" ->
            [EndpointName       |-> l["endpoint_name"],
             EndpointConfigName |-> l["endpoint_config_name"]]

\* no try/except around the calls: a failing call ends the handler
NextPcRetry(api, ok) == IF ok THEN Program[api].next ELSE api
NextPc(api, ok) == IF ok THEN Program[api].next ELSE "raised"

Resource(api, l) ==
    [kind |-> Program[api].kind, name |-> l[Program[api].named], exec |-> owner]

\* the Lambda step ends with the handler: it succeeds when the handler returns
StatusAfter(newpc) ==
    IF invoker = "pipeline" /\ newpc \in Terminal
    THEN [status EXCEPT !["deploy"] =
            IF newpc = "returned" THEN "Succeeded" ELSE "Failed"]
    ELSE status

\* ----------------------------------------------------------- actions
Init ==
    /\ current_time \in Times
    /\ bucket \in Buckets
    /\ role \in Roles
    /\ execution = 0
    /\ status = [s \in Steps |-> "NotStarted"]
    /\ evalLoss = -1
    /\ condOutcome = "None"
    /\ modelPackages = {}
    /\ created = {}
    /\ invoker = "none"
    /\ owner = 0
    /\ event = NoLocals
    /\ pc = "idle"
    /\ locals = NoLocals
    /\ calls = <<>>
    /\ error = "none"
    /\ response = None

\* pipeline.start(), after the previous execution (if any) has come to rest
StartExecution ==
    /\ execution < MaxExecutions
    /\ \A s \in Steps : status[s] # "Executing"
    /\ execution' = execution + 1
    /\ status' = [s \in Steps |-> "NotStarted"]
    /\ evalLoss' = -1
    /\ condOutcome' = "None"
    /\ UNCHANGED <<env, modelPackages, created, frame>>

\* a processing or training job runs; the evaluation job writes eval_loss
RunJobStep(s) ==
    /\ s \in JobSteps
    /\ CanStart(s)
    /\ \E ok \in BOOLEAN :
        /\ status' = [status EXCEPT ![s] = IF ok THEN "Succeeded" ELSE "Failed"]
        /\ IF s = "eval" /\ ok
           THEN evalLoss' \in LossValues
           ELSE evalLoss' = evalLoss
    /\ UNCHANGED <<env, execution, condOutcome, modelPackages, created, frame>>

\* the condition step evaluates cond_lte on the evaluation report
EvalCondition ==
    /\ CanStart("cond")
    /\ status' = [status EXCEPT !["cond"] = "Succeeded"]
    /\ condOutcome' = IF cond_lte(evalLoss) THEN "True" ELSE "False"
    /\ UNCHANGED <<env, execution, evalLoss, modelPackages, created, frame>>

\* RegisterModel registers the trained model in the model package group
RunRegister ==
    /\ CanStart("register")
    /\ \E ok \in BOOLEAN :
        /\ status' = [status EXCEPT !["register"] = IF ok THEN "Succeeded" ELSE "Failed"]
        /\ modelPackages' =
             IF ok
             THEN modelPackages \cup {[arn |-> ModelPackageArn(execution), exec |-> execution]}
             ELSE modelPackages
    /\ UNCHANGED <<env, execution, evalLoss, condOutcome, created, frame>>

\* the Lambda step invokes the handler with its inputs as the event
InvokeDeploy ==
    /\ CanStart("deploy")
    /\ pc \in {"idle"} \cup Terminal
    /\ status' = [status EXCEPT !["deploy"] = "Executing"]
    /\ invoker' = "pipeline"
    /\ owner' = execution
    /\ event' = LambdaInputs
    /\ pc' = "read"
    /\ locals' = NoLocals
    /\ calls' = <<>>
    /\ error' = "none"
    /\ response' = None
    /\ UNCHANGED <<env, execution, evalLoss, condOutcome, modelPackages, created>>

\* any other client invokes the function, with an event that may lack a key
DirectInvoke ==
    /\ pc \in {"idle"} \cup Terminal
    /\ \E missing \in EventKeys \cup {"nothing"} :
          event' = [k \in EventKeys \ {missing} |-> "direct-" \o k]
    /\ invoker' = "direct"
    /\ owner' = 0
    /\ pc' = "read"
    /\ locals' = NoLocals
    /\ calls' = <<>>
    /\ error' = "none"
    /\ response' = None
    /\ UNCHANGED <<env, pipe, created>>

\* lines 393-401: read the seven fields of the event
HandlerRead ==
    /\ pc = "read"
    /\ IF EventKeys \subseteq DOMAIN event
       THEN /\ locals' = BindLocals(event)
            /\ pc' = "create_model"
            /\ error' = error
       ELSE /\ locals' = locals
            /\ pc' = "raised"
            /\ error' = "KeyError"
    /\ status' = StatusAfter(pc')
    /\ UNCHANGED <<env, execution, evalLoss, condOutcome, modelPackages, created,
                   invoker, owner, event, calls, response>>

\* lines 403-435: the statement at pc, an API call or the return
HandlerStep ==
    /\ pc \in ApiNames \cup {"return"}
    /\ IF pc = "return"
       THEN /\ response' = ReturnValue
            /\ pc' = "returned"
            /\ UNCHANGED <<calls, created, error>>
       ELSE IF ~(Program[pc].uses \subseteq DOMAIN locals)
       THEN /\ error' = "NameError"
            /\ pc' = "raised"
            /\ UNCHANGED <<calls, created, response>>
       ELSE \E ok \in BOOLEAN :
            /\ calls' = Append(calls, [api |-> pc, args |-> Args(pc, locals), ok |-> ok])
            /\ created' = IF ok THEN created \cup {Resource(pc, locals)} ELSE created
            /\ pc' = NextPc(pc, ok)
            /\ error' = IF ok THEN error ELSE "ClientError"
            /\ response' = response
    /\ status' = StatusAfter(pc')
    /\ UNCHANGED <<env, execution, evalLoss, condOutcome, modelPackages,
                   invoker, owner, event, locals>>

Next ==
    \/ StartExecution
    \/ \E s \in JobSteps : RunJobStep(s)
    \/ EvalCondition
    \/ RunRegister
    \/ InvokeDeploy
    \/ DirectInvoke
    \/ HandlerRead
    \/ HandlerStep

Spec == Init /\ [][Next]_vars

\* ------------------------------------------------------------ claims
WellFormed(e) == EventKeys \subseteq DOMAIN e

ApiSeq == [i \in 1..Len(calls) |-> calls[i].api]

\* the invocation has ended and no API call of it failed
EndedWithoutApiFailure ==
    /\ invoker # "none"
    /\ WellFormed(event)
    /\ pc \in Terminal
    /\ error # "ClientError"

\* C1: an invocation with a well-formed event in which no API call fails issues
\* create_model, create_endpoint_config, create_endpoint, once each and in this
\* order, and then returns.
C1_ThreeCallsInOrder ==
    EndedWithoutApiFailure =>
        /\ ApiSeq = <<"create_model", "create_endpoint_config", "create_endpoint">>
        /\ pc = "returned"

\* the arguments the event prescribes for each call
ExpectedArgsHold(api, a, e) ==
    CASE api = "create_model" ->
            /\ a.ModelName = e["model_name"]
            /\ a.ExecutionRoleArn = e["role"]
            /\ a.Containers = <<[ModelPackageName |-> e["model_package_arn"]]>>
      [] api = "create_endpoint_config" ->
            /\ a.EndpointConfigName = e["endpoint_config_name"]
            /\ a.AsyncInferenceConfig.OutputConfig.S3OutputPath =
                  "s3://" \o e["bucket"] \o "/" \o e["s3_prefix"] \o "/output"
      [] api = "create_endpoint" ->
            /\ a.EndpointName = e["endpoint_name"]
            /\ a.EndpointConfigName = e["endpoint_config_name"]

\* C2: with a well-formed event, the arguments of every API call the handler
\* comes to can be evaluated and carry the values of the event, and so do the
\* arguments of every call it has issued.
C2_ArgsFromEvent ==
    (invoker # "none" /\ WellFormed(event)) =>
        /\ pc \in ApiNames =>
              /\ Program[pc].uses \subseteq DOMAIN locals
              /\ ExpectedArgsHold(pc, Args(pc, locals), event)
        /\ \A i \in 1..Len(calls) :
              ExpectedArgsHold(calls[i].api, calls[i].args, event)

C4_FixedResponse ==
    EndedWithoutApiFailure =>
        response = [statusCode |-> 200,
                    body       |-> "\"Created Endpoint!\"",
                    other_key  |-> "example_value"]

\* C5: the registration and deployment steps have started only if the condition
\* step evaluated to true; while the condition is false the execution has
\* registered no model package and created no model, endpoint config or endpoint.
C5_BranchOnlyIfTrue ==
    /\ (status["register"] # "NotStarted" \/ status["deploy"] # "NotStarted") =>
          (status["cond"] = "Succeeded" /\ condOutcome = "True")
    /\ condOutcome = "False" =>
          /\ \A m \in modelPackages : m.exec # execution
          /\ \A r \in created : r.exec # execution

\* the condition came out false in an execution that follows one that registered
C5_Witness ==
    /\ condOutcome = "False"
    /\ status["cond"] = "Succeeded"
    /\ modelPackages # {}

\* C6: the condition is true, and the registration and deployment steps run,
\* only when eval_loss is less than 0.3.
C6_StrictThreshold ==
    (\/ condOutcome = "True"
     \/ status["register"] # "NotStarted"
     \/ status["deploy"] # "NotStarted") => evalLoss < Threshold

\* C7: an invocation made by the pipeline never fails on a missing event key or
\* on an undefined name.
C7_NoKeyOrNameError ==
    invoker = "pipeline" => error \notin {"KeyError", "NameError"}

====
